---- MODULE Spec2Model ----
(***************************************************************************)
(* Transaction validation and threshold decryption of cryptoballot.        *)
(*                                                                         *)
(* The store is the set of transactions accepted so far.  command_e2e      *)
(* reads the transactions of its input one by one, validates each against  *)
(* the store and inserts it when validation returns Ok; it exits at the    *)
(* first failure.                                                          *)
(*                                                                         *)
(* Threshold ElGamal is modelled in the exponent, over the prime field     *)
(* Z_P: a group element g^x is the number x, so that a ciphertext          *)
(* (g^r, m*h^r) is the pair (r, m + r*s), a partial decryption c1^(s_i) is *)
(* r*s_i, and the combiner is Lagrange interpolation at 0 over the trustee *)
(* indices.                                                                *)
(***************************************************************************)
EXTENDS Integers, Sequences, FiniteSets, TLC

VARIABLES store, pc, tx, result

vars == <<store, pc, tx, result>>

---------------------------------------------------------------------------
(* Bounds of the model *)

\* The scalar field is Z_P with P == Primes[FieldSel].
FieldSel == 1
\* Votes cast in the election.
NumVotes == 1
\* Largest trustees_threshold an Election of the input declares.
MaxThreshold == 2
\* Largest mixnet.num_shuffles an Election of the input declares; Mix
\* transactions of the input carry mix_index 0 .. MaxShuffles.
MaxShuffles == 1
\* Longest `trustees` list of a Decryption of the input.
MaxListLen == 2
\* Most transactions the store holds.
MaxStore == 8

\* Trustees of the election (tests.rs creates three).
NumTrustees == 3

Primes == <<5, 7, 11, 13>>
P == Primes[FieldSel]

---------------------------------------------------------------------------
(* Field arithmetic *)

Mod(x) == x % P

Inv(a) == CHOOSE x \in 1 .. P - 1 : Mod(a * x) = 1

RECURSIVE LagrangeProd(_, _)
\* prod over j in js of j / (j - i): the Lagrange basis of index i at x = 0.
LagrangeProd(i, js) ==
    IF js = {} THEN 1
    ELSE LET j == CHOOSE x \in js : TRUE
         IN Mod(j * Inv(Mod(j - i)) * LagrangeProd(i, js \ {j}))

RECURSIVE SumSeq(_)
SumSeq(s) == IF s = <<>> THEN 0 ELSE Mod(Head(s) + SumSeq(Tail(s)))

RECURSIVE Reverse(_)
Reverse(s) == IF s = <<>> THEN <<>> ELSE Append(Reverse(Tail(s)), Head(s))

Range(s) == {s[i] : i \in 1 .. Len(s)}

---------------------------------------------------------------------------
(* Results of validation *)

Ok == [tag |-> "Ok", a |-> 0, b |-> 0]
Err(tag) == [tag |-> tag, a |-> 0, b |-> 0]
NotEnoughShares(required, got) == [tag |-> "NotEnoughShares", a |-> required, b |-> got]

---------------------------------------------------------------------------
(* Identifiers *)

\* An identifier is election_id (15 bytes), transaction_type (1 byte) and
\* unique_id (16 bytes).  The unique_id is kept as three cells
\* <<bytes 0..13, byte 14, byte 15>>.
TransactionTypes ==
    <<"Election", "KeyGenCommitment", "KeyGenShare", "KeyGenPublicKey", "Vote",
      "VotingEnd", "Mix", "PartialDecryption", "Decryption">>

TypeByte(type) == CHOOSE i \in 1 .. Len(TransactionTypes) : TransactionTypes[i] = type

Zero16 == <<0, 0, 0>>

\* Identifier::new(election_id, transaction_type, unique_info)
Identifier(election_id, type, unique_info) ==
    [eid |-> election_id.eid, type |-> type, uid |-> unique_info]

ElectionId(e) == [eid |-> e, type |-> "Election", uid |-> Zero16]

\* The first 14 bytes of a unique_id.
First14(uid) == uid[1]

\* Uuid::as_bytes: a trustee id fills the 16 bytes; trustee ids differ in
\* their first bytes.
UuidBytes(uuid) == <<uuid, 0, 0>>

\* Identifier::to_bytes cut to 16 bytes: election_id (15 bytes), then the type.
First16OfId(id) == <<id.eid, 0, TypeByte(id.type)>>

\* PartialDecryptionTransaction::build_id: the unique_id is the upstream
\* type (byte 0), the first 14 bytes of the upstream unique_id (bytes 1..14)
\* and the trustee index (byte 15), kept as these three cells.
PartialDecryptionBuildId(election_id, upstream_id, trustee_index) ==
    Identifier(election_id, "PartialDecryption",
               <<TypeByte(upstream_id.type), First14(upstream_id.uid), trustee_index>>)

\* The ID DecryptionTransaction::new gives.
DecryptionBuildId(election_id, vote_id) ==
    Identifier(election_id, "Decryption", First16OfId(vote_id))

VotingEndId(election_id) == Identifier(election_id, "VotingEnd", Zero16)

KeyGenPublicKeyId(election_id, trustee_id) ==
    Identifier(election_id, "KeyGenPublicKey", UuidBytes(trustee_id))

VoteId(election_id, v) == Identifier(election_id, "Vote", <<v, 0, 0>>)

\* mix_index (1 byte), then the mixing trustee's id.
MixId(election_id, mix_index, trustee_id) ==
    Identifier(election_id, "Mix", <<mix_index * 256 + trustee_id, 0, 0>>)

---------------------------------------------------------------------------
(* Trustees, keys and ciphertexts *)

TrusteeUuid(i) == 10 + i
TrusteeKey(i) == 20 + i
Trustee(i) == [id |-> TrusteeUuid(i), index |-> i, public_key |-> TrusteeKey(i)]
\* The `trustees` field of the Election: each trustee by its index, the full
\* record being Trustee(index).
Roster == [i \in 1 .. NumTrustees |-> i]

\* A trustee id no Election lists.
UnknownUuid == TrusteeUuid(0)

\* The dealer's polynomial: the election secret is Coef[1], and a threshold
\* of t uses the first t coefficients.
Coef == <<3, 3, 2, 1, 1>>
ElectionSecret == Coef[1]

RECURSIVE PolyAt(_, _, _)
PolyAt(t, x, k) ==
    IF k > t THEN 0
    ELSE Mod(Coef[k] + x * PolyAt(t, x, k + 1))

\* deal_secret_shares: the share of the trustee with this index.
SecretShare(t, index) == PolyAt(t, index, 1)

\* encrypt_vote under the joint key, with randomness r.
EncryptVote(m, r) == [c1 |-> Mod(r), c2 |-> Mod(m + r * ElectionSecret)]

\* A re-encryption of ct with randomness r.
Reencrypt(ct, r) == [c1 |-> Mod(ct.c1 + r), c2 |-> Mod(ct.c2 + r * ElectionSecret)]

\* The trustee's partial decryption of ct.
MakeShare(secret_share, ct) == Mod(ct.c1 * secret_share)

\* DecryptShare::verify(public_key_proof, ciphertext)
ShareVerify(partial_decryption, public_key_proof, ct) ==
    partial_decryption = Mod(ct.c1 * public_key_proof)

---------------------------------------------------------------------------
(* The store *)

\* Store::get_transaction(id): the transactions stored under id (none or one).
GetTransaction(s, id) == {t \in s : t.id = id}

\* The typed accessors (get_election, get_vote, get_mix, ...) fail when no
\* transaction is stored under id or when it is of another kind.
Has(s, id, type) == \E t \in s : t.id = id /\ t.type = type
Get(s, id, type) == CHOOSE t \in s : t.id = id /\ t.type = type

\* Store::get_multiple(election_id, type)
GetMultiple(s, election_id, type) ==
    {t \in s : t.id.eid = election_id.eid /\ t.id.type = type}

\* Store::set(tx)
StoreSet(s, t) == {u \in s : u.id # t.id} \cup {t}

\* ElectionTransaction::get_full_trustees / get_trustee(trustee_id)
GetFullTrustees(election) ==
    [k \in 1 .. Len(election.trustees) |-> Trustee(election.trustees[k])]

TrusteeOf(election, trustee_id) ==
    {t \in {Trustee(election.trustees[j]) : j \in 1 .. Len(election.trustees)} :
        t.id = trustee_id}

---------------------------------------------------------------------------
(* The transactions *)

ElectionTransaction(e, threshold, num_shuffles) ==
    [type |-> "Election", id |-> ElectionId(e), election_id |-> ElectionId(e),
     trustees |-> Roster, trustees_threshold |-> threshold, mixnet |-> num_shuffles]

KeyGenPublicKeyTransaction(election, i) ==
    [type |-> "KeyGenPublicKey",
     id |-> KeyGenPublicKeyId(election.id, TrusteeUuid(i)),
     election_id |-> election.id,
     trustee_id |-> TrusteeUuid(i),
     trustee_public_key |-> TrusteeKey(i),
     public_key_proof |-> SecretShare(election.trustees_threshold, i)]

\* The plaintext and the randomness of vote v.
PlainOf(v) == Mod(v)
RandOf(v) == Mod(v)

VoteTransaction(election_id, v) ==
    [type |-> "Vote", id |-> VoteId(election_id, v), election_id |-> election_id,
     encrypted_vote |-> EncryptVote(PlainOf(v), RandOf(v))]

VotingEndTransaction(election_id) ==
    [type |-> "VotingEnd", id |-> VotingEndId(election_id), election_id |-> election_id]

MixTransaction(election_id, mix_index, reencryption) ==
    [type |-> "Mix", id |-> MixId(election_id, mix_index, TrusteeUuid(1)),
     election_id |-> election_id, mix_index |-> mix_index,
     trustee_id |-> TrusteeUuid(1), reencryption |-> reencryption]

\* PartialDecryptionTransaction::new
NewPartialDecryption(election_id, upstream_id, upstream_index, trustee_id, trustee_index, trustee_public_key, partial_decryption) ==
    [type |-> "PartialDecryption",
     id |-> PartialDecryptionBuildId(election_id, upstream_id, trustee_index),
     election_id |-> election_id, upstream_id |-> upstream_id,
     upstream_index |-> upstream_index, trustee_id |-> trustee_id,
     trustee_public_key |-> trustee_public_key,
     partial_decryption |-> partial_decryption]

\* DecryptionTransaction::new
NewDecryption(election_id, vote_id, trustees, decrypted_vote) ==
    [type |-> "Decryption", id |-> DecryptionBuildId(election_id, vote_id),
     election_id |-> election_id, vote_id |-> vote_id, trustees |-> trustees,
     decrypted_vote |-> decrypted_vote]

---------------------------------------------------------------------------
(* The threshold combiner *)

\* cryptid::threshold::Decryption::finish over the shares added, each
\* [index, proof, share]: every share must verify, at least `threshold` of
\* them are needed, and the plaintext is c2 minus the Lagrange combination
\* of the shares at 0.
CombineShares(ct, shares) ==
    LET idxs == {shares[k].index : k \in 1 .. Len(shares)}
        terms == [k \in 1 .. Len(shares) |->
                    Mod(shares[k].share
                        * LagrangeProd(shares[k].index, idxs \ {shares[k].index}))]
    IN Mod(ct.c2 - SumSeq(terms))

Finish(threshold, ct, shares) ==
    IF \E k \in 1 .. Len(shares) : ~ShareVerify(shares[k].share, shares[k].proof, ct)
    THEN [ok |-> FALSE, bytes |-> 0]
    ELSE IF Len(shares) < threshold
    THEN [ok |-> FALSE, bytes |-> 0]
    ELSE [ok |-> TRUE, bytes |-> CombineShares(ct, shares)]

\* The HashMap built from a Vec of transactions keyed by trustee_id: a later
\* entry replaces an earlier one.
LastFor(txs, trustee_id) ==
    LET hits == {k \in 1 .. Len(txs) : txs[k].trustee_id = trustee_id}
    IN txs[CHOOSE k \in hits : \A j \in hits : j <= k]

\* A variant of the loop that numbers the shares by their place among the
\* shares added instead of by trustee.index.
RECURSIVE SharesAddedByPlace(_, _, _, _)
SharesAddedByPlace(trustees, pubkeys, partials, k) ==
    IF k > Len(trustees) THEN <<>>
    ELSE LET trustee == trustees[k]
             rest == SharesAddedByPlace(trustees, pubkeys, partials, k + 1)
         IN IF /\ \E j \in 1 .. Len(partials) : partials[j].trustee_id = trustee.id
               /\ \E pk \in pubkeys : pk.trustee_id = trustee.id
            THEN <<[index |-> Len(rest) + 1,
                    proof |-> (CHOOSE pk \in pubkeys :
                                 pk.trustee_id = trustee.id).public_key_proof,
                    share |-> LastFor(partials, trustee.id).partial_decryption]>>
                 \o rest
            ELSE rest

\* A variant of the loop that walks the partials in the order they were
\* gathered and numbers each share by its place in that order.
SharesAddedInListOrder(trustees, pubkeys, partials, k) ==
    LET kept == {j \in 1 .. Len(partials) :
                   \E pk \in pubkeys : pk.trustee_id = partials[j].trustee_id}
    IN [j \in 1 .. Len(partials) |->
          [index |-> j,
           proof |-> IF j \in kept
                     THEN (CHOOSE pk \in pubkeys :
                             pk.trustee_id = partials[j].trustee_id).public_key_proof
                     ELSE 0,
           share |-> partials[j].partial_decryption]]

\* The loop of decrypt_vote: the shares added, in the Election's trustee order.
RECURSIVE SharesAdded(_, _, _, _)
SharesAdded(trustees, pubkeys, partials, k) ==
    IF k > Len(trustees) THEN <<>>
    ELSE LET trustee == trustees[k]
             rest == SharesAdded(trustees, pubkeys, partials, k + 1)
         IN IF /\ \E j \in 1 .. Len(partials) : partials[j].trustee_id = trustee.id
               /\ \E pk \in pubkeys : pk.trustee_id = trustee.id
            THEN <<[index |-> trustee.index,
                    proof |-> (CHOOSE pk \in pubkeys :
                                 pk.trustee_id = trustee.id).public_key_proof,
                    share |-> LastFor(partials, trustee.id).partial_decryption]>>
                 \o rest
            ELSE rest

\* decrypt_vote(encrypted_vote, trustees_threshold, trustees, pubkeys, partials)
DecryptVote(encrypted_vote, trustees_threshold, trustees, pubkeys, partials) ==
    Finish(trustees_threshold, encrypted_vote,
           SharesAdded(trustees, pubkeys, partials, 1))

---------------------------------------------------------------------------
(* PartialDecryptionTransaction::validate_tx *)

\* A variant that matches the trustee by its id alone.
PDTrusteeById(self, election) ==
    LET ts == GetFullTrustees(election)
        hits == {k \in 1 .. Len(ts) : ts[k].id = self.trustee_id}
    IN IF hits = {} THEN {} ELSE {ts[CHOOSE k \in hits : \A j \in hits : k <= j]}

\* The Election trustees matching (trustee_id, trustee_public_key).
PDTrustee(self, election) ==
    LET ts == GetFullTrustees(election)
        hits == {k \in 1 .. Len(ts) : /\ ts[k].id = self.trustee_id
                                      /\ ts[k].public_key = self.trustee_public_key}
    IN IF hits = {} THEN {} ELSE {ts[CHOOSE k \in hits : \A j \in hits : k <= j]}

\* A variant that never misses the VotingEnd.
VotingEndNeverMissing(s, election_id) == FALSE

\* A variant with the test the other way round: the VotingEnd must be absent.
VotingEndPresent(s, election_id) == GetTransaction(s, VotingEndId(election_id)) # {}

VotingEndMissing(s, election_id) == GetTransaction(s, VotingEndId(election_id)) = {}

\* The check of the mix against the mixnet config: TRUE when the mix is refused.
WrongMix(num_shuffles, mix_index) == num_shuffles # mix_index

\* The ciphertext the share is made on: [res, ct], res being Ok or the error.
NoCt == [c1 |-> 0, c2 |-> 0]

PDCiphertext(self, s, election) ==
    IF self.upstream_id.type = "Vote"
    THEN IF self.upstream_index # 0
         THEN [res |-> Err("InvalidUpstreamIndex"), ct |-> NoCt]
         ELSE IF ~Has(s, self.upstream_id, "Vote")
         THEN [res |-> Err("TransactionNotFound"), ct |-> NoCt]
         ELSE [res |-> Ok, ct |-> Get(s, self.upstream_id, "Vote").encrypted_vote]
    ELSE IF self.upstream_id.type = "Mix"
    THEN IF ~Has(s, self.upstream_id, "Mix")
         THEN [res |-> Err("TransactionNotFound"), ct |-> NoCt]
         ELSE LET mix == Get(s, self.upstream_id, "Mix")
              IN IF election.mixnet = 0
                 THEN [res |-> Err("InvalidUpstreamID"), ct |-> NoCt]
                 ELSE IF WrongMix(election.mixnet, mix.mix_index)
                 THEN [res |-> Err("WrongMixSelected"), ct |-> NoCt]
                 ELSE IF self.upstream_index >= Len(mix.reencryption)
                 THEN [res |-> Err("InvalidUpstreamIndex"), ct |-> NoCt]
                 ELSE [res |-> Ok, ct |-> mix.reencryption[self.upstream_index + 1]]
    ELSE [res |-> Err("InvalidUpstreamID"), ct |-> NoCt]

\* A variant of the KeyGenPublicKey lookup that leaves the proof unverified.
PDProofUnverified(self, s, ct) ==
    LET pkey_tx_id == KeyGenPublicKeyId(self.election_id, self.trustee_id)
    IN IF ~Has(s, pkey_tx_id, "KeyGenPublicKey")
       THEN Err("TransactionNotFound")
       ELSE LET public_key == Get(s, pkey_tx_id, "KeyGenPublicKey")
            IN IF \/ self.trustee_id # public_key.trustee_id
                  \/ self.trustee_public_key # public_key.trustee_public_key
               THEN Err("TrusteePublicKeyMismatch")
               ELSE Ok

\* The KeyGenPublicKey lookup and the proof check, on the ciphertext ct.
PDProof(self, s, ct) ==
    LET pkey_tx_id == KeyGenPublicKeyId(self.election_id, self.trustee_id)
    IN IF ~Has(s, pkey_tx_id, "KeyGenPublicKey")
       THEN Err("TransactionNotFound")
       ELSE LET public_key == Get(s, pkey_tx_id, "KeyGenPublicKey")
            IN IF \/ self.trustee_id # public_key.trustee_id
                  \/ self.trustee_public_key # public_key.trustee_public_key
               THEN Err("TrusteePublicKeyMismatch")
               ELSE IF ~ShareVerify(self.partial_decryption,
                                    public_key.public_key_proof, ct)
               THEN Err("PartialDecryptionProofFailed")
               ELSE Ok

PartialDecryptionValidateTx(self, s) ==
    IF ~Has(s, self.election_id, "Election") THEN Err("TransactionNotFound")
    ELSE LET election == Get(s, self.election_id, "Election")
             trustee == PDTrustee(self, election)
         IN IF trustee = {} THEN Err("TrusteeDoesNotExist")
            ELSE IF PartialDecryptionBuildId(self.election_id, self.upstream_id,
                        (CHOOSE t \in trustee : TRUE).index) # self.id
            THEN Err("IdentifierBadComposition")
            ELSE IF VotingEndMissing(s, self.election_id)
            THEN Err("MisingVotingEndTransaction")
            ELSE LET up == PDCiphertext(self, s, election)
                 IN IF up.res # Ok THEN up.res
                    ELSE PDProof(self, s, up.ct)

---------------------------------------------------------------------------
(* DecryptionTransaction::validate_tx *)

\* The Election trustee with this id has a PartialDecryption on upstream_id
\* stored under the ID rebuilt from its Election index.
HasPartial(s, election, upstream_id, trustee_id) ==
    /\ TrusteeOf(election, trustee_id) # {}
    /\ Has(s, PartialDecryptionBuildId(election.id, upstream_id,
                  (CHOOSE t \in TrusteeOf(election, trustee_id) : TRUE).index),
           "PartialDecryption")

\* A variant of the loop body that reports a listed id that is not in the
\* Election as a missing transaction.
GatherOneNotFound(self, s, election, k) ==
    IF ~HasPartial(s, election, self.vote_id, self.trustees[k])
    THEN Err("TransactionNotFound")
    ELSE Ok

\* The body of the loop gathering the partial decryptions, for the trustee
\* listed at position k: the error it returns, or Ok.
GatherOne(self, s, election, k) ==
    LET trustee == TrusteeOf(election, self.trustees[k])
    IN IF trustee = {} THEN Err("TrusteeDoesNotExist")
       ELSE LET partial_id ==
                    PartialDecryptionBuildId(self.election_id, self.vote_id,
                        (CHOOSE t \in trustee : TRUE).index)
            IN IF ~Has(s, partial_id, "PartialDecryption")
               THEN Err("TransactionNotFound")
               ELSE Ok

\* The loop, from position k on: the first error met, or Ok.
RECURSIVE GatherResult(_, _, _, _)
GatherResult(self, s, election, k) ==
    IF k > Len(self.trustees) THEN Ok
    ELSE IF GatherOne(self, s, election, k) # Ok
    THEN GatherOne(self, s, election, k)
    ELSE GatherResult(self, s, election, k + 1)

\* The partial decryptions gathered, in the order of the `trustees` field.
Partials(self, s, election) ==
    [k \in 1 .. Len(self.trustees) |->
        Get(s, PartialDecryptionBuildId(self.election_id, self.vote_id,
                   (CHOOSE t \in TrusteeOf(election, self.trustees[k]) : TRUE).index),
            "PartialDecryption")]

\* Variants of the share count check: one that also refuses exactly
\* required_shares shares, one that refuses none.
TooFewSharesStrict(got, required_shares) == got <= required_shares

TooFewSharesNever(got, required_shares) == FALSE

\* TRUE when the shares gathered are too few.
TooFewShares(got, required_shares) == got < required_shares

\* A variant that takes any decrypted_vote for the combiner's bytes.
DecryptionNeverMismatch(decrypted, decrypted_vote) == FALSE

\* TRUE when the combiner's bytes are not the decrypted_vote field.
DecryptionMismatch(decrypted, decrypted_vote) == decrypted # decrypted_vote

DecryptionValidateTx(self, s) ==
    IF ~Has(s, self.election_id, "Election") THEN Err("TransactionNotFound")
    ELSE LET election == Get(s, self.election_id, "Election")
         IN IF VotingEndMissing(s, self.election_id)
            THEN Err("MisingVotingEndTransaction")
            ELSE IF ~Has(s, self.vote_id, "Vote") THEN Err("TransactionNotFound")
            ELSE LET vote == Get(s, self.vote_id, "Vote")
                     pubkeys == GetMultiple(s, self.election_id, "KeyGenPublicKey")
                     gathered == GatherResult(self, s, election, 1)
                 IN IF gathered # Ok THEN gathered
                    ELSE LET partials == Partials(self, s, election)
                             required_shares == election.trustees_threshold
                         IN IF TooFewShares(Len(partials), required_shares)
                            THEN NotEnoughShares(required_shares, Len(partials))
                            ELSE LET decrypted ==
                                         DecryptVote(vote.encrypted_vote,
                                                     election.trustees_threshold,
                                                     GetFullTrustees(election),
                                                     pubkeys,
                                                     partials)
                                 IN IF ~decrypted.ok THEN Err("VoteDecryptionFailed")
                                    ELSE IF DecryptionMismatch(decrypted.bytes,
                                                               self.decrypted_vote)
                                    THEN Err("VoteDecryptionMismatch")
                                    ELSE Ok

---------------------------------------------------------------------------
(* Validation of the other transactions *)

HasDuplicateIndex(trustees) ==
    \E i, j \in 1 .. Len(trustees) : i # j /\ trustees[i].index = trustees[j].index

ElectionValidateTx(self, s) ==
    IF \/ Len(self.trustees) < 1
       \/ self.trustees_threshold < 1
       \/ self.trustees_threshold > Len(self.trustees)
       \/ HasDuplicateIndex(GetFullTrustees(self))
    THEN Err("InvalidElection")
    ELSE Ok

KeyGenPublicKeyValidateTx(self, s) ==
    IF ~Has(s, self.election_id, "Election") THEN Err("TransactionNotFound")
    ELSE LET election == Get(s, self.election_id, "Election")
         IN IF TrusteeOf(election, self.trustee_id) = {} THEN Err("TrusteeDoesNotExist")
            ELSE Ok

VoteValidateTx(self, s) ==
    IF ~Has(s, self.election_id, "Election") THEN Err("TransactionNotFound")
    ELSE Ok

VotingEndValidateTx(self, s) ==
    IF ~Has(s, self.election_id, "Election") THEN Err("TransactionNotFound")
    ELSE IF self.id.uid # Zero16 THEN Err("IdentifierBadComposition")
    ELSE Ok

\* The ciphertexts a mix with this index takes in: the Votes' for the first
\* mix, the previous mix's reencryption otherwise.
RECURSIVE VoteCiphertexts(_, _, _)
VoteCiphertexts(s, election_id, v) ==
    IF v > NumVotes THEN <<>>
    ELSE (IF Has(s, VoteId(election_id, v), "Vote")
          THEN <<Get(s, VoteId(election_id, v), "Vote").encrypted_vote>>
          ELSE <<>>)
         \o VoteCiphertexts(s, election_id, v + 1)

MixInput(s, election_id, mix_index) ==
    IF mix_index = 0 THEN VoteCiphertexts(s, election_id, 1)
    ELSE IF Has(s, MixId(election_id, mix_index - 1, TrusteeUuid(1)), "Mix")
    THEN Get(s, MixId(election_id, mix_index - 1, TrusteeUuid(1)), "Mix").reencryption
    ELSE <<>>

\* The shuffle: every ciphertext re-encrypted, in reverse order.
Shuffle(cts) == Reverse([k \in 1 .. Len(cts) |-> Reencrypt(cts[k], 1)])

MixValidateTx(self, s) ==
    IF ~Has(s, self.election_id, "Election") THEN Err("TransactionNotFound")
    ELSE IF VotingEndMissing(s, self.election_id) THEN Err("MisingVotingEndTransaction")
    ELSE IF /\ self.mix_index > 0
            /\ ~Has(s, MixId(self.election_id, self.mix_index - 1, TrusteeUuid(1)), "Mix")
    THEN Err("TransactionNotFound")
    ELSE IF self.reencryption # Shuffle(MixInput(s, self.election_id, self.mix_index))
    THEN Err("ShuffleProofFailed")
    ELSE Ok

\* Signed<T>::validate, by the kind of the transaction.
ValidateTx(self, s) ==
    CASE self.type = "Election" -> ElectionValidateTx(self, s)
      [] self.type = "KeyGenPublicKey" -> KeyGenPublicKeyValidateTx(self, s)
      [] self.type = "Vote" -> VoteValidateTx(self, s)
      [] self.type = "VotingEnd" -> VotingEndValidateTx(self, s)
      [] self.type = "Mix" -> MixValidateTx(self, s)
      [] self.type = "PartialDecryption" -> PartialDecryptionValidateTx(self, s)
      [] self.type = "Decryption" -> DecryptionValidateTx(self, s)

---------------------------------------------------------------------------
(* The transactions of the input *)

TheElection == ElectionId(1)

ElectionInputs ==
    {ElectionTransaction(1, t, n) : t \in 1 .. MaxThreshold, n \in 0 .. MaxShuffles}

\* A unique_id no constructor gives.
OtherUid == <<7, 7, 7>>

UpstreamIds ==
    {VoteId(TheElection, v) : v \in 1 .. NumVotes}
      \cup {MixId(TheElection, k, TrusteeUuid(1)) : k \in 0 .. MaxShuffles}
      \cup {VotingEndId(TheElection)}

\* The ciphertext the upstream holds at upstream_index, when it holds one.
UpstreamCiphertext(s, upstream_id, upstream_index) ==
    IF Has(s, upstream_id, "Vote")
    THEN Get(s, upstream_id, "Vote").encrypted_vote
    ELSE IF /\ Has(s, upstream_id, "Mix")
            /\ upstream_index < Len(Get(s, upstream_id, "Mix").reencryption)
    THEN Get(s, upstream_id, "Mix").reencryption[upstream_index + 1]
    ELSE NoCt

PDFaults == {"none", "share", "id", "trustee", "key"}

\* The partial decryption trustee i makes on the upstream, with one fault.
PartialDecryptionInput(s, election, upstream_id, upstream_index, i, fault) ==
    LET ct == UpstreamCiphertext(s, upstream_id, upstream_index)
        share == MakeShare(SecretShare(election.trustees_threshold, i), ct)
        good == NewPartialDecryption(election.id, upstream_id, upstream_index,
                    TrusteeUuid(i), i, TrusteeKey(i), share)
    IN CASE fault = "none" -> good
         [] fault = "share" -> [good EXCEPT !.partial_decryption = Mod(share + 1)]
         [] fault = "id" ->
              [good EXCEPT !.id = Identifier(election.id, "PartialDecryption", OtherUid)]
         [] fault = "trustee" -> [good EXCEPT !.trustee_id = UnknownUuid]
         [] fault = "key" -> [good EXCEPT !.trustee_public_key = TrusteeKey(0)]

PartialDecryptionInputs(s, election) ==
    {PartialDecryptionInput(s, election, up, idx, i, "none") :
        up \in UpstreamIds, idx \in 0 .. NumVotes, i \in 1 .. NumTrustees}
      \cup {PartialDecryptionInput(s, election, up, 0, i, f) :
              up \in UpstreamIds, i \in 1 .. NumTrustees, f \in PDFaults}

\* The trustee ids a Decryption of the input may list.
ListIds == {TrusteeUuid(i) : i \in 0 .. NumTrustees - 1}

TrusteeLists == UNION {[1 .. n -> ListIds] : n \in 1 .. MaxListLen}

DecFaults == {"none", "plaintext", "id"}

DecryptionInput(election, v, trustees, fault) ==
    LET good == NewDecryption(election.id, VoteId(election.id, v), trustees, PlainOf(v))
    IN CASE fault = "none" -> good
         [] fault = "plaintext" -> [good EXCEPT !.decrypted_vote = Mod(PlainOf(v) + 1)]
         [] fault = "id" ->
              [good EXCEPT !.id = Identifier(election.id, "Decryption", OtherUid)]

\* Every list with the right plaintext and ID; a wrong plaintext or another
\* ID on the lists of Election trustees.
DecryptionInputs(election) ==
    {DecryptionInput(election, v, l, "none") : v \in 1 .. NumVotes, l \in TrusteeLists}
      \cup {DecryptionInput(election, v, l, f) :
               v \in 1 .. NumVotes,
               l \in {m \in TrusteeLists : UnknownUuid \notin Range(m)},
               f \in DecFaults}

\* The transactions the input may hold next.  The log is de-duplicated: no
\* transaction of the input carries the ID of one already in the store.
Inputs(s) ==
    LET all ==
          IF Has(s, TheElection, "Election")
          THEN LET election == Get(s, TheElection, "Election")
               IN {KeyGenPublicKeyTransaction(election, i) : i \in 1 .. NumTrustees}
                    \cup {VoteTransaction(TheElection, v) : v \in 1 .. NumVotes}
                    \cup {VotingEndTransaction(TheElection)}
                    \cup {MixTransaction(TheElection, k,
                              Shuffle(MixInput(s, TheElection, k))) :
                            k \in 0 .. MaxShuffles}
                    \cup PartialDecryptionInputs(s, election)
                    \cup DecryptionInputs(election)
          ELSE ElectionInputs \cup {VotingEndTransaction(TheElection)}
    IN {t \in all : GetTransaction(s, t.id) = {}}

---------------------------------------------------------------------------
(* command_e2e *)

\* The loop variable once its transaction has been moved into the store.
NoTx == [type |-> "None"]

Init ==
    /\ store = {}
    /\ pc = "start"
    /\ tx = NoTx
    /\ result = Ok

\* A variant of the turn that inserts the transaction whatever validation
\* returns.
ProcessTxInsertFirst(t) ==
    LET r == ValidateTx(t, store)
    IN /\ result' = r
       /\ store' = StoreSet(store, t)
       /\ IF r = Ok THEN pc' = "loop" /\ tx' = NoTx ELSE pc' = "failed" /\ tx' = t

\* One turn of the loop: validate t against the store, insert it on Ok, report
\* it and exit on an error.
ProcessTx(t) ==
    LET r == ValidateTx(t, store)
    IN /\ result' = r
       /\ IF r = Ok
          THEN store' = StoreSet(store, t) /\ pc' = "loop" /\ tx' = NoTx
          ELSE store' = store /\ pc' = "failed" /\ tx' = t

\* The first transaction must be an election transaction.
Start ==
    /\ pc = "start"
    /\ \E t \in Inputs(store) :
         IF t.type # "Election"
         THEN /\ pc' = "failed"
              /\ result' = Err("FirstNotElection")
              /\ tx' = t
              /\ store' = store
         ELSE ProcessTx(t)

Step ==
    /\ pc = "loop"
    /\ Cardinality(store) < MaxStore
    /\ \E t \in Inputs(store) : ProcessTx(t)

\* The input is exhausted: "Election verified OK".
Verified ==
    /\ pc = "loop"
    /\ pc' = "verified"
    /\ UNCHANGED <<store, tx, result>>

Next == Start \/ Step \/ Verified

Spec == Init /\ [][Next]_vars

---------------------------------------------------------------------------
(* What the claims speak of *)

\* A VotingEnd of the election is in the store s.
HasVotingEnd(s, election_id) ==
    \E t \in s : t.type = "VotingEnd" /\ t.election_id = election_id

Failed(type) == pc = "failed" /\ tx.type = type

StoredOf(type) == {t \in store : t.type = type}

HasElection == Has(store, TheElection, "Election")
TheElectionTx == Get(store, TheElection, "Election")

\* The Election, the VotingEnd and the Vote a Decryption d needs are stored.
DecryptionReady(d, s) ==
    /\ Has(s, d.election_id, "Election")
    /\ HasVotingEnd(s, d.election_id)
    /\ Has(s, d.vote_id, "Vote")

\* A PartialDecryption t of a trustee of the Election, with the ID build_id
\* gives, the VotingEnd being stored.
PDWellFormed(t, s) ==
    /\ Has(s, t.election_id, "Election")
    /\ PDTrustee(t, Get(s, t.election_id, "Election")) # {}
    /\ t.id = PartialDecryptionBuildId(t.election_id, t.upstream_id,
                 (CHOOSE u \in PDTrustee(t, Get(s, t.election_id, "Election")) :
                    TRUE).index)
    /\ HasVotingEnd(s, t.election_id)

\* The trustee's KeyGenPublicKey is stored and the share of t verifies against
\* it on the ciphertext ct.
PDProofGood(t, s, ct) ==
    /\ Has(s, KeyGenPublicKeyId(t.election_id, t.trustee_id), "KeyGenPublicKey")
    /\ LET kg == Get(s, KeyGenPublicKeyId(t.election_id, t.trustee_id),
                     "KeyGenPublicKey")
       IN /\ kg.trustee_public_key = t.trustee_public_key
          /\ ShareVerify(t.partial_decryption, kg.public_key_proof, ct)

---------------------------------------------------------------------------
(* C1 *)

\* C1 (voting-end ordering): validate_tx of a PartialDecryption or a
\* Decryption never returns Ok against a store holding no VotingEnd of the
\* election, so every PartialDecryption and every Decryption the loop inserts
\* is inserted into a store that already holds the VotingEnd.
C1_VotingEndOrdering ==
    [][\A t \in store' \ store :
          t.type \in {"PartialDecryption", "Decryption"}
            => HasVotingEnd(store, t.election_id)]_vars

\* A PartialDecryption or Decryption was validated against a store with no
\* VotingEnd, and refused for it.
C1_Witness ==
    /\ pc = "failed"
    /\ tx.type \in {"PartialDecryption", "Decryption"}
    /\ ~HasVotingEnd(store, tx.election_id)
    /\ result = Err("MisingVotingEndTransaction")

---------------------------------------------------------------------------
(* C2 *)

\* t is a PartialDecryption of an election with a mixnet whose upstream is a
\* stored Mix that is not the final one, and is valid otherwise: trustee, ID,
\* VotingEnd, upstream_index, KeyGenPublicKey, proof.
C2_OnNonFinalMix(t, s) ==
    /\ PDWellFormed(t, s)
    /\ Get(s, t.election_id, "Election").mixnet >= 1
    /\ t.upstream_id.type = "Mix"
    /\ Has(s, t.upstream_id, "Mix")
    /\ LET mix == Get(s, t.upstream_id, "Mix")
       IN /\ mix.mix_index # Get(s, t.election_id, "Election").mixnet - 1
          /\ t.upstream_index < Len(mix.reencryption)
          /\ PDProofGood(t, s, mix.reencryption[t.upstream_index + 1])

---------------------------------------------------------------------------
(* C3 *)

\* t is a PartialDecryption on a ciphertext of the final Mix, valid in every
\* respect: trustee, ID, VotingEnd, upstream_index, KeyGenPublicKey, proof.
C3_OnFinalMix(t, s) ==
    /\ PDWellFormed(t, s)
    /\ Get(s, t.election_id, "Election").mixnet >= 1
    /\ t.upstream_id.type = "Mix"
    /\ Has(s, t.upstream_id, "Mix")
    /\ LET mix == Get(s, t.upstream_id, "Mix")
       IN /\ mix.mix_index = Get(s, t.election_id, "Election").mixnet - 1
          /\ t.upstream_index < Len(mix.reencryption)
          /\ PDProofGood(t, s, mix.reencryption[t.upstream_index + 1])

\* C3 (the final mix can be decrypted), as claimed: a valid PartialDecryption
\* on the Mix with mix_index = num_shuffles - 1 is accepted, so the loop never
\* stops on one.
C3_FinalMixAccepted ==
    ~(Failed("PartialDecryption") /\ C3_OnFinalMix(tx, store))

---------------------------------------------------------------------------
(* C4 *)

HasRepeat(l) == \E i, j \in 1 .. Len(l) : i # j /\ l[i] = l[j]

\* C4 (threshold safety), as claimed: every Decryption in the store lists at
\* least trustees_threshold distinct trustee ids, and none lists an id twice.
C4_ThresholdSafety ==
    \A d \in StoredOf("Decryption") :
       /\ Cardinality(Range(d.trustees))
            >= Get(store, d.election_id, "Election").trustees_threshold
       /\ ~HasRepeat(d.trustees)

---------------------------------------------------------------------------
(* C5 *)

\* What the combiner gives for the Decryption d over the store s.
Combined(d, s) ==
    LET election == Get(s, d.election_id, "Election")
    IN DecryptVote(Get(s, d.vote_id, "Vote").encrypted_vote,
                   election.trustees_threshold, GetFullTrustees(election),
                   GetMultiple(s, d.election_id, "KeyGenPublicKey"),
                   Partials(d, s, election))

\* The combiner runs on d and gives bytes: every check before it passes.
Combinable(d, s) ==
    /\ DecryptionReady(d, s)
    /\ \A k \in 1 .. Len(d.trustees) :
          HasPartial(s, Get(s, d.election_id, "Election"), d.vote_id, d.trustees[k])
    /\ Len(d.trustees) >= Get(s, d.election_id, "Election").trustees_threshold
    /\ Combined(d, s).ok

\* C5 (an accepted Decryption is truthful): the decrypted_vote of every
\* Decryption in the store is what decrypt_vote gives on the referenced Vote's
\* ciphertext and the gathered shares, and a Decryption the combiner runs on
\* with any other decrypted_vote is refused with VoteDecryptionMismatch.
C5_DecryptionTruthful ==
    /\ \A d \in StoredOf("Decryption") :
          /\ Combinable(d, store)
          /\ Combined(d, store).bytes = d.decrypted_vote
    /\ (/\ Failed("Decryption")
        /\ Combinable(tx, store)
        /\ Combined(tx, store).bytes # tx.decrypted_vote)
         => result = Err("VoteDecryptionMismatch")

\* The loop stopped on a Decryption whose decrypted_vote is not what the
\* combiner gives.
C5_Witness ==
    /\ Failed("Decryption")
    /\ Combinable(tx, store)
    /\ Combined(tx, store).bytes # tx.decrypted_vote
    /\ result = Err("VoteDecryptionMismatch")

---------------------------------------------------------------------------
(* C6 *)

\* d lists a set of exactly trustees_threshold trustees, each with a
\* PartialDecryption on the Vote, carries the Vote's plaintext, and the
\* election has no mixnet.
C6_HappyPath(d, s) ==
    /\ DecryptionReady(d, s)
    /\ LET election == Get(s, d.election_id, "Election")
       IN /\ election.mixnet = 0
          /\ Len(d.trustees) = election.trustees_threshold
          /\ ~HasRepeat(d.trustees)
          /\ \A k \in 1 .. Len(d.trustees) :
                HasPartial(s, election, d.vote_id, d.trustees[k])
    /\ \E v \in 1 .. NumVotes :
          d.vote_id = VoteId(d.election_id, v) /\ d.decrypted_vote = PlainOf(v)

\* C6 (happy path, t-of-n, no mix): a Decryption listing exactly
\* trustees_threshold trustees with valid PartialDecryptions on the Vote and
\* carrying the original plaintext validates: the loop never stops on one.
C6_HappyPathValidates == ~(Failed("Decryption") /\ C6_HappyPath(tx, store))

\* A 2-of-3 Decryption of the happy path is in the store.
C6_Witness ==
    \E d \in StoredOf("Decryption") :
       /\ C6_HappyPath(d, store)
       /\ Get(store, d.election_id, "Election").trustees_threshold = 2
       /\ Len(Get(store, d.election_id, "Election").trustees) = 3

---------------------------------------------------------------------------
(* C7 *)

\* d lists fewer than trustees_threshold trustees, each an Election trustee
\* with a stored PartialDecryption for the vote.
C7_BelowThreshold(d, s) ==
    /\ DecryptionReady(d, s)
    /\ Len(d.trustees) < Get(s, d.election_id, "Election").trustees_threshold
    /\ \A k \in 1 .. Len(d.trustees) :
          HasPartial(s, Get(s, d.election_id, "Election"), d.vote_id, d.trustees[k])

\* C7 (below threshold): such a Decryption is rejected with
\* NotEnoughShares(trustees_threshold, number listed): none is in the store,
\* and the loop stops on one with that error.
C7_NotEnoughShares ==
    /\ \A d \in StoredOf("Decryption") : ~C7_BelowThreshold(d, store)
    /\ (Failed("Decryption") /\ C7_BelowThreshold(tx, store))
         => result = NotEnoughShares(
                         Get(store, tx.election_id, "Election").trustees_threshold,
                         Len(tx.trustees))

\* Threshold 2 and one trustee listed: NotEnoughShares(2, 1).
C7_Witness ==
    /\ Failed("Decryption")
    /\ C7_BelowThreshold(tx, store)
    /\ Len(tx.trustees) = 1
    /\ result = NotEnoughShares(2, 1)

---------------------------------------------------------------------------
(* C8 *)

\* The positions of d.trustees holding an id that is not in the Election, and
\* those holding an Election trustee with no PartialDecryption for the vote.
NotInElection(d, s) ==
    {k \in 1 .. Len(d.trustees) :
        TrusteeOf(Get(s, d.election_id, "Election"), d.trustees[k]) = {}}

NoPartial(d, s) ==
    {k \in 1 .. Len(d.trustees) :
        /\ TrusteeOf(Get(s, d.election_id, "Election"), d.trustees[k]) # {}
        /\ ~HasPartial(s, Get(s, d.election_id, "Election"), d.vote_id,
                       d.trustees[k])}

Least(S) == CHOOSE k \in S : \A j \in S : k <= j

\* Every listed trustee of every stored Decryption is an Election trustee with
\* a stored PartialDecryption for the vote.
C8_AcceptedListsValid ==
    \A d \in StoredOf("Decryption") :
       NotInElection(d, store) = {} /\ NoPartial(d, store) = {}

\* C8, as claimed: beside C8_AcceptedListsValid, a listed id that is not in
\* the Election gives TrusteeDoesNotExist and a listed trustee with no
\* PartialDecryption gives a not-found error, whatever the other listed
\* trustees are.
C8_ListedTrusteesAsClaimed ==
    /\ C8_AcceptedListsValid
    /\ (Failed("Decryption") /\ DecryptionReady(tx, store))
         => /\ NotInElection(tx, store) # {} => result = Err("TrusteeDoesNotExist")
            /\ NoPartial(tx, store) # {} => result = Err("TransactionNotFound")

\* C8, amended: beside C8_AcceptedListsValid, the first listed id that is not
\* in the Election or has no PartialDecryption decides the error:
\* TrusteeDoesNotExist for the former, a not-found error for the latter.
C8_ListedTrustees ==
    /\ C8_AcceptedListsValid
    /\ (/\ Failed("Decryption")
        /\ DecryptionReady(tx, store)
        /\ NotInElection(tx, store) \cup NoPartial(tx, store) # {})
         => LET first == Least(NotInElection(tx, store) \cup NoPartial(tx, store))
            IN result = IF first \in NotInElection(tx, store)
                        THEN Err("TrusteeDoesNotExist")
                        ELSE Err("TransactionNotFound")

\* The loop stopped on a Decryption listing an Election trustee with a
\* PartialDecryption and, after it, an id that is not in the Election.
C8_Witness ==
    /\ Failed("Decryption")
    /\ DecryptionReady(tx, store)
    /\ Len(tx.trustees) = 2
    /\ HasPartial(store, TheElectionTx, tx.vote_id, tx.trustees[1])
    /\ NotInElection(tx, store) = {2}
    /\ result = Err("TrusteeDoesNotExist")

---------------------------------------------------------------------------
(* C9 *)

\* The ciphertext a stored or refused PartialDecryption t is made on.
CiphertextOf(t, s) == PDCiphertext(t, s, Get(s, t.election_id, "Election")).ct

\* t passes every check before the proof check, and its proof fails.
C9_Tampered(t, s) ==
    /\ PDWellFormed(t, s)
    /\ PDCiphertext(t, s, Get(s, t.election_id, "Election")).res = Ok
    /\ Has(s, KeyGenPublicKeyId(t.election_id, t.trustee_id), "KeyGenPublicKey")
    /\ ~PDProofGood(t, s, CiphertextOf(t, s))

\* C9 (a tampered share never reaches a Decryption): a PartialDecryption
\* whose proof does not verify is refused with PartialDecryptionProofFailed;
\* the share of every PartialDecryption in the store verifies; and against the
\* store the tampered share was refused by, no Decryption of the input listing
\* that trustee for that vote validates.
C9_TamperedShare ==
    /\ \A t \in StoredOf("PartialDecryption") :
          PDProofGood(t, store, CiphertextOf(t, store))
    /\ (Failed("PartialDecryption") /\ C9_Tampered(tx, store))
         => /\ result = Err("PartialDecryptionProofFailed")
            /\ \A d \in DecryptionInputs(TheElectionTx) :
                  (d.vote_id = tx.upstream_id /\ tx.trustee_id \in Range(d.trustees))
                    => DecryptionValidateTx(d, store) # Ok

\* The loop stopped on a tampered share of a trustee on a stored Vote.
C9_Witness ==
    /\ Failed("PartialDecryption")
    /\ C9_Tampered(tx, store)
    /\ tx.upstream_id.type = "Vote"
    /\ result = Err("PartialDecryptionProofFailed")
    /\ \E d \in DecryptionInputs(TheElectionTx) :
          /\ d.vote_id = tx.upstream_id
          /\ TheElectionTx.trustees_threshold = 2
          /\ Len(d.trustees) = 2
          /\ d.trustees[1] # tx.trustee_id
          /\ HasPartial(store, TheElectionTx, d.vote_id, d.trustees[1])
          /\ d.trustees[2] = tx.trustee_id
          /\ DecryptionValidateTx(d, store) = Err("TransactionNotFound")

---------------------------------------------------------------------------
(* C10 *)

\* C10 (ID coherence of Decryption), as claimed: the id of every Decryption
\* in the store is Identifier(election_id, Decryption, first 16 bytes of
\* vote_id's encoding).
C10_DecryptionIdCoherent ==
    \A d \in StoredOf("Decryption") :
       d.id = DecryptionBuildId(d.election_id, d.vote_id)

---------------------------------------------------------------------------
(* C11 *)

\* The indices the Election declares for the pair (trustee_id,
\* trustee_public_key) of the PartialDecryption t.
DeclaredIndices(t, s) ==
    {i \in Range(Get(s, t.election_id, "Election").trustees) :
        TrusteeUuid(i) = t.trustee_id /\ TrusteeKey(i) = t.trustee_public_key}

\* C11 (ID coherence of PartialDecryption): the id of every PartialDecryption
\* in the store is build_id(election_id, upstream_id, index), index being the
\* one the Election declares for (trustee_id, trustee_public_key); one whose
\* pair is not in the Election is refused with TrusteeDoesNotExist, and one
\* whose pair is in the Election but whose id is another is refused with
\* IdentifierBadComposition.
C11_PartialDecryptionIdCoherent ==
    /\ \A t \in StoredOf("PartialDecryption") :
          \E i \in DeclaredIndices(t, store) :
             t.id = PartialDecryptionBuildId(t.election_id, t.upstream_id, i)
    /\ (Failed("PartialDecryption") /\ Has(store, tx.election_id, "Election"))
         => /\ DeclaredIndices(tx, store) = {} => result = Err("TrusteeDoesNotExist")
            /\ (/\ DeclaredIndices(tx, store) # {}
                /\ \A i \in DeclaredIndices(tx, store) :
                      tx.id # PartialDecryptionBuildId(tx.election_id, tx.upstream_id, i))
                 => result = Err("IdentifierBadComposition")

\* The loop stopped on a PartialDecryption of an Election trustee, on a stored
\* Vote, whose id is not the one build_id gives.
C11_Witness ==
    /\ Failed("PartialDecryption")
    /\ Has(store, tx.election_id, "Election")
    /\ DeclaredIndices(tx, store) # {}
    /\ Has(store, tx.upstream_id, "Vote")
    /\ HasVotingEnd(store, tx.election_id)
    /\ tx.id.uid = OtherUid
    /\ result = Err("IdentifierBadComposition")

---------------------------------------------------------------------------
(* C12: command_e2e on an input holding two elections *)

TwoElections == {ElectionId(1), ElectionId(2)}

\* The transactions an input with two elections may hold next: for each
\* election the Election, the first trustee's KeyGenPublicKey, the Votes and
\* the VotingEnd, and the first trustee's PartialDecryption and a Decryption
\* on a Vote of either election.
CrossInputs(s) ==
    LET elections == {ElectionTransaction(e.eid, 1, 0) : e \in TwoElections}
        all == elections
                 \cup {VoteTransaction(e, v) : e \in TwoElections, v \in 1 .. NumVotes}
                 \cup UNION {
                        {KeyGenPublicKeyTransaction(el, 1), VotingEndTransaction(el.id)}
                          \cup {PartialDecryptionInput(s, el, VoteId(e, v), 0, 1, "none") :
                                  e \in TwoElections, v \in 1 .. NumVotes}
                          \cup {NewDecryption(el.id, VoteId(e, v), <<TrusteeUuid(1)>>,
                                              PlainOf(v)) :
                                  e \in TwoElections, v \in 1 .. NumVotes}
                        : el \in {x \in elections : Has(s, x.id, "Election")}}
    IN {t \in all : GetTransaction(s, t.id) = {}}

CrossStart ==
    /\ pc = "start"
    /\ \E t \in CrossInputs(store) :
         IF t.type # "Election"
         THEN /\ pc' = "failed"
              /\ result' = Err("FirstNotElection")
              /\ tx' = t
              /\ store' = store
         ELSE ProcessTx(t)

CrossStep ==
    /\ pc = "loop"
    /\ Cardinality(store) < MaxStore
    /\ \E t \in CrossInputs(store) : ProcessTx(t)

CrossNext == CrossStart \/ CrossStep \/ Verified

SpecCross == Init /\ [][CrossNext]_vars

\* C12 (cross-election references are invalid), as claimed: no
\* PartialDecryption in the store has an upstream_id of another election than
\* its election_id, and no Decryption in the store has a vote_id of another
\* election than its election_id.
C12_NoCrossElectionReference ==
    /\ \A t \in StoredOf("PartialDecryption") : t.upstream_id.eid = t.election_id.eid
    /\ \A d \in StoredOf("Decryption") : d.vote_id.eid = d.election_id.eid

---------------------------------------------------------------------------
(* C13 *)

\* C13 (with a mixnet, decryption works on the final mix), as claimed: in
\* an election whose Election declares a mixnet, no PartialDecryption in the
\* store has a Vote for upstream.
C13_NoPartialOnVoteWithMixnet ==
    \A t \in StoredOf("PartialDecryption") :
       Get(store, t.election_id, "Election").mixnet >= 1
         => t.upstream_id.type # "Vote"

---------------------------------------------------------------------------
(* C14 *)

\* The id of the final Mix of the election: mix_index = num_shuffles - 1.
FinalMixId(election) == MixId(election.id, election.mixnet - 1, TrusteeUuid(1))

\* The PartialDecryptions of the store made on the final Mix by this trustee.
PartialsOnFinalMix(s, election, trustee_id) ==
    {p \in s : /\ p.type = "PartialDecryption"
               /\ p.election_id = election.id
               /\ p.trustee_id = trustee_id
               /\ p.upstream_id = FinalMixId(election)}

\* d is a Decryption of the end of the mixnet sequence: the election has a
\* mixnet, its final Mix is stored, d carries the plaintext of a stored Vote
\* and lists at least trustees_threshold distinct Election trustees that
\* each have a PartialDecryption on the final Mix.
C14_DecryptionAfterMix(d, s) ==
    /\ DecryptionReady(d, s)
    /\ LET election == Get(s, d.election_id, "Election")
       IN /\ election.mixnet >= 1
          /\ Has(s, FinalMixId(election), "Mix")
          /\ Len(d.trustees) >= election.trustees_threshold
          /\ ~HasRepeat(d.trustees)
          /\ \A k \in 1 .. Len(d.trustees) :
                PartialsOnFinalMix(s, election, d.trustees[k]) # {}
    /\ \E v \in 1 .. NumVotes :
          d.vote_id = VoteId(d.election_id, v) /\ d.decrypted_vote = PlainOf(v)

\* C14 (mixnet end to end), as claimed: in an election with a mixnet the loop
\* stops neither on a valid PartialDecryption on a ciphertext of the final
\* Mix nor on a Decryption carrying the right plaintext once
\* trustees_threshold trustees have such PartialDecryptions, and the
\* PartialDecryptions a stored Decryption gathers are made on the final Mix.
C14_MixnetEndToEnd ==
    /\ Failed("PartialDecryption") => ~C3_OnFinalMix(tx, store)
    /\ Failed("Decryption") => ~C14_DecryptionAfterMix(tx, store)
    /\ \A d \in StoredOf("Decryption") :
          LET election == Get(store, d.election_id, "Election")
          IN election.mixnet >= 1
               => \A k \in 1 .. Len(d.trustees) :
                     Partials(d, store, election)[k].upstream_id = FinalMixId(election)

---------------------------------------------------------------------------
(* C15 *)

\* C15 (exactly one Decryption per Vote), as claimed: two Decryptions in the
\* store with the same vote_id have the same identifier, so the store holds
\* at most one Decryption for each vote_id.
C15_OneDecryptionPerVote ==
    \A d1, d2 \in StoredOf("Decryption") :
       d1.vote_id = d2.vote_id => d1.id = d2.id

---------------------------------------------------------------------------
(* C16: decrypt_vote on two quorums *)

\* The calls of decrypt_vote compared: an election threshold, a vote and two
\* sets of at least `threshold` trustees (by index); the KeyGenPublicKeys
\* supplied are those of every trustee or of the quorum alone.
QuorumCalls ==
    {[type |-> "decrypt_vote", threshold |-> t, vote |-> v, first |-> q1,
      second |-> q2, all_keys |-> a] :
        t \in 1 .. MaxThreshold, v \in 1 .. NumVotes,
        q1 \in SUBSET (1 .. NumTrustees), q2 \in SUBSET (1 .. NumTrustees),
        a \in BOOLEAN}

RECURSIVE Ascending(_)
Ascending(S) ==
    IF S = {} THEN <<>>
    ELSE LET m == CHOOSE x \in S : \A y \in S : x <= y
         IN <<m>> \o Ascending(S \ {m})

\* decrypt_vote on the vote's ciphertext with the valid partial decryptions
\* of the trustees of `quorum`.
DecryptWithQuorum(call, quorum) ==
    LET election == ElectionTransaction(1, call.threshold, 0)
        ct == EncryptVote(PlainOf(call.vote), RandOf(call.vote))
        order == Ascending(quorum)
        partials == [k \in 1 .. Len(order) |->
                       NewPartialDecryption(election.id, VoteId(election.id, call.vote),
                           0, TrusteeUuid(order[k]), order[k], TrusteeKey(order[k]),
                           MakeShare(SecretShare(call.threshold, order[k]), ct))]
        pubkeys == {KeyGenPublicKeyTransaction(election, i) :
                      i \in IF call.all_keys THEN 1 .. NumTrustees ELSE quorum}
    IN DecryptVote(ct, call.threshold, GetFullTrustees(election), pubkeys, partials)

QuorumInit ==
    /\ store = {}
    /\ pc = "quorum"
    /\ tx \in {c \in QuorumCalls : /\ Cardinality(c.first) >= c.threshold
                                  /\ Cardinality(c.second) >= c.threshold}
    /\ result = Ok

DecryptBoth ==
    /\ pc = "quorum"
    /\ pc' = "decrypted"
    /\ result' = [first |-> DecryptWithQuorum(tx, tx.first),
                  second |-> DecryptWithQuorum(tx, tx.second)]
    /\ UNCHANGED <<store, tx>>

SpecQuorum == QuorumInit /\ [][DecryptBoth]_vars

\* C16 (quorum independence): for a vote and a threshold t, decrypt_vote
\* succeeds and returns the same plaintext with the valid shares of any two
\* sets of at least t trustees.
C16_QuorumIndependence ==
    pc = "decrypted"
      => /\ result.first.ok
         /\ result.second.ok
         /\ result.first.bytes = result.second.bytes

\* decrypt_vote has run on two different quorums of a threshold-2 election,
\* one of them larger than the threshold.
C16_Witness ==
    /\ pc = "decrypted"
    /\ tx.threshold = 2
    /\ tx.first = {1, 2}
    /\ tx.second = {1, 2, 3}
    /\ result.first.ok
    /\ result.first.bytes = PlainOf(tx.vote)

---------------------------------------------------------------------------
(* C17 *)

\* C17 (validate-then-insert in the end-to-end verifier): every step of
\* command_e2e either inserts one transaction that validates against the
\* store before the step and goes on, or stops on a transaction that does not
\* validate (or on a first transaction that is no Election) leaving the store
\* as it was, or reports the election verified from the loop with every
\* transaction inserted; nothing happens after a stop.
C17_ValidateThenInsert ==
    [][/\ pc \in {"start", "loop"}
       /\ pc' = "loop"
            => /\ result' = Ok
               /\ \E t \in store' \ store :
                     /\ store' = store \cup {t}
                     /\ ValidateTx(t, store) = Ok
       /\ pc' = "failed"
            => /\ store' = store
               /\ tx' \notin store
               /\ result' # Ok
               /\ \/ pc = "start" /\ tx'.type # "Election"
                  \/ result' = ValidateTx(tx', store)
       /\ pc' = "verified"
            => /\ pc = "loop"
               /\ store' = store
               /\ result = Ok
       /\ pc' \in {"loop", "failed", "verified"}]_vars

\* The loop stopped on a transaction that does not validate, after it had
\* inserted others, and the store does not hold it.
C17_Witness ==
    /\ pc = "failed"
    /\ Cardinality(store) >= 2
    /\ result # Ok
    /\ result = ValidateTx(tx, store)
    /\ tx \notin store

---------------------------------------------------------------------------
(* transaction.rs: TransactionIdentifier and Transaction *)

\* Bytes a string parsed by from_str may hold beyond the 32 of an identifier.
MaxExtraBytes == 1

\* [u8; 15] and [u8; 16] of TransactionIdentifier.
ElectionIdLen == 15
UniqueIdLen == 16

\* enum TransactionType of transaction.rs, #[repr(u8)]: Election = 0, Vote = 1,
\* Decryption = 2.
TransactionTypeEnum == <<"Election", "Vote", "Decryption">>

\* `transaction_type as u8`
AsU8(transaction_type) ==
    (CHOOSE i \in 1 .. Len(TransactionTypeEnum) :
        TransactionTypeEnum[i] = transaction_type) - 1

\* TransactionType::try_from_primitive: [ok, type].
TryFromPrimitive(byte) ==
    IF byte < Len(TransactionTypeEnum)
    THEN [ok |-> TRUE, type |-> TransactionTypeEnum[byte + 1]]
    ELSE [ok |-> FALSE, type |-> "None"]

LowerDigits ==
    <<"0", "1", "2", "3", "4", "5", "6", "7", "8", "9", "a", "b", "c", "d", "e", "f">>

UpperDigits ==
    <<"0", "1", "2", "3", "4", "5", "6", "7", "8", "9", "A", "B", "C", "D", "E", "F">>

\* hex::encode: two lowercase digits per byte, high nibble first.
HexEncode(bytes) ==
    [k \in 1 .. 2 * Len(bytes) |->
        IF k % 2 = 1
        THEN LowerDigits[(bytes[(k + 1) \div 2] \div 16) + 1]
        ELSE LowerDigits[(bytes[k \div 2] % 16) + 1]]

IsHexDigit(c) == c \in Range(LowerDigits) \cup Range(UpperDigits)

\* The value of a hex digit of either case.
HexVal(c) ==
    (CHOOSE i \in 1 .. Len(LowerDigits) : LowerDigits[i] = c \/ UpperDigits[i] = c) - 1

\* hex::decode: an error for an odd length or a character that is no hex
\* digit, the bytes otherwise.  [ok, bytes].
HexDecode(s) ==
    IF Len(s) % 2 = 1 \/ \E k \in 1 .. Len(s) : ~IsHexDigit(s[k])
    THEN [ok |-> FALSE, bytes |-> <<>>]
    ELSE [ok |-> TRUE,
          bytes |-> [k \in 1 .. Len(s) \div 2 |->
                       16 * HexVal(s[2 * k - 1]) + HexVal(s[2 * k])]]

\* What a call returns: Ok with a value, Err, or a panic that aborts it.
NoIdentifier == [election_id |-> <<>>, transaction_type |-> "None", unique_id |-> <<>>]
Returned(id) == [tag |-> "Ok", id |-> id]
Failure == [tag |-> "Err", id |-> NoIdentifier]
Panic == [tag |-> "Panic", id |-> NoIdentifier]

\* The three parts in another order: the type after the unique_id.
IdentifierToStringTypeLast(self) ==
    HexEncode(self.election_id) \o HexEncode(self.unique_id)
        \o HexEncode(<<AsU8(self.transaction_type)>>)

\* impl ToString for TransactionIdentifier
IdentifierToString(self) ==
    LET election_id == HexEncode(self.election_id)
        transaction_type == HexEncode(<<AsU8(self.transaction_type)>>)
        unique_id == HexEncode(self.unique_id)
    IN election_id \o transaction_type \o unique_id

\* impl FromStr for TransactionIdentifier.  bytes[0..15] panics on fewer than
\* 15 bytes, bytes[15] on fewer than 16, try_from_primitive(..).unwrap() on a
\* byte that is no TransactionType, and bytes[16..].try_into().unwrap() when
\* other than 16 bytes are left.
FromStr(s) ==
    LET decoded == HexDecode(s)
        bytes == decoded.bytes
    IN IF ~decoded.ok THEN Failure
       ELSE IF Len(bytes) < ElectionIdLen THEN Panic
       ELSE IF Len(bytes) < ElectionIdLen + 1 THEN Panic
       ELSE IF ~TryFromPrimitive(bytes[ElectionIdLen + 1]).ok THEN Panic
       ELSE IF Len(bytes) - (ElectionIdLen + 1) # UniqueIdLen THEN Panic
       ELSE Returned([election_id |-> SubSeq(bytes, 1, ElectionIdLen),
                      transaction_type |->
                          TryFromPrimitive(bytes[ElectionIdLen + 1]).type,
                      unique_id |-> SubSeq(bytes, ElectionIdLen + 2, Len(bytes))])

\* enum Transaction, #[serde(tag = "type")] with snake_case variant names.
VariantTags == <<"election", "vote", "decryption">>

NoTransaction == [variant |-> "None", id |-> NoIdentifier]
Unpacked(variant, id) == [tag |-> "Ok", value |-> [variant |-> variant, id |-> id]]
UnpackError == [tag |-> "Err", value |-> NoTransaction]
UnpackPanic == [tag |-> "Panic", value |-> NoTransaction]

\* Transaction::unpack on a packed map with its "type" tag and the "id" string
\* of the inner transaction: the derived Deserialize picks the variant by the
\* tag alone, and the id is read by from_str (impl Deserialize for
\* TransactionIdentifier).
Unpack(packed) ==
    IF packed.type \notin Range(VariantTags) THEN UnpackError
    ELSE LET parsed == FromStr(packed.s)
             variant == CHOOSE i \in 1 .. Len(VariantTags) : VariantTags[i] = packed.type
         IN IF parsed.tag = "Panic" THEN UnpackPanic
            ELSE IF parsed.tag = "Err" THEN UnpackError
            ELSE Unpacked(TransactionTypeEnum[variant], parsed.id)

\* Transaction::transaction_type: by the variant.
TransactionTypeOf(self) == self.variant

\* Transaction::id: the id of the inner transaction.
IdOf(self) == self.id

\* Inputs of the calls.
ByteFills == {0, 171, 250}
ByteRun(fill, n) == [k \in 1 .. n |-> (fill + k) % 256]

IdentifierInputs ==
    {[election_id |-> ByteRun(e, ElectionIdLen), transaction_type |-> t,
      unique_id |-> ByteRun(u, UniqueIdLen)] :
        e \in ByteFills, t \in Range(TransactionTypeEnum), u \in ByteFills}

\* Byte strings of every length up to MaxExtraBytes beyond an identifier's,
\* with every type byte up to one beyond the enumerated ones.
ByteInputs ==
    {[k \in 1 .. n |-> IF k = ElectionIdLen + 1 THEN b ELSE (fill + k) % 256] :
        n \in 0 .. ElectionIdLen + 1 + UniqueIdLen + MaxExtraBytes,
        b \in 0 .. Len(TransactionTypeEnum),
        fill \in ByteFills}

UpperCase(s) ==
    [k \in 1 .. Len(s) |->
        UpperDigits[CHOOSE i \in 1 .. Len(LowerDigits) : LowerDigits[i] = s[k]]]

\* Strings handed to from_str: hex of either case, hex with its last character
\* cut off, and hex with a character that is no hex digit.
StringInputs ==
    LET hex == {HexEncode(bytes) : bytes \in ByteInputs}
    IN hex \cup {UpperCase(s) : s \in hex}
           \cup {SubSeq(s, 1, Len(s) - 1) : s \in hex \ {<<>>}}
           \cup {[s EXCEPT ![Len(s)] = "g"] : s \in hex \ {<<>>}}

PackedInputs ==
    {[type |-> tag, s |-> s] :
        tag \in Range(VariantTags) \cup {"mix"},
        s \in {IdentifierToString(id) : id \in IdentifierInputs} \cup {<<"z", "z">>, <<"0", "0">>}}

TransactionInit ==
    /\ store = {}
    /\ result = Ok
    /\ \/ pc = "from_str" /\ tx \in {[call |-> "from_str", s |-> s] : s \in StringInputs}
       \/ pc = "to_string" /\ tx \in {[call |-> "to_string", self |-> id] : id \in IdentifierInputs}
       \/ pc = "unpack" /\ tx \in {[call |-> "unpack", packed |-> p] : p \in PackedInputs}

\* A call of TransactionIdentifier::from_str.
FromStrCall ==
    /\ pc = "from_str"
    /\ pc' = "parsed"
    /\ result' = FromStr(tx.s)
    /\ UNCHANGED <<store, tx>>

\* to_string, then from_str of the string it returned.
RoundTripCall ==
    /\ pc = "to_string"
    /\ pc' = "round_trip"
    /\ result' = [rendered |-> IdentifierToString(tx.self),
                  parsed |-> FromStr(IdentifierToString(tx.self))]
    /\ UNCHANGED <<store, tx>>

\* A call of Transaction::unpack.
UnpackCall ==
    /\ pc = "unpack"
    /\ pc' = "unpacked"
    /\ result' = Unpack(tx.packed)
    /\ UNCHANGED <<store, tx>>

TransactionNext == FromStrCall \/ RoundTripCall \/ UnpackCall

SpecTransaction == TransactionInit /\ [][TransactionNext]_vars

---------------------------------------------------------------------------
\* C18: from_str returns Err, and neither aborts nor returns an identifier,
\* for every string that is not exactly 64 hex characters (valid hex of
\* another length included) and for a 64-hex string whose 16th byte is not an
\* enumerated transaction type.
C18_NotAnIdentifier(s) ==
    \/ Len(s) # 64
    \/ \E k \in 1 .. Len(s) : ~IsHexDigit(s[k])
    \/ 16 * HexVal(s[31]) + HexVal(s[32]) \notin {0, 1, 2}

C18_FromStrReturnsErr ==
    pc = "parsed" /\ C18_NotAnIdentifier(tx.s) => result.tag = "Err"

---------------------------------------------------------------------------
\* C19: for every identifier id, from_str(to_string(id)) = id, and
\* to_string(id) is 64 lowercase hex characters: election_id (15 bytes), type
\* (1 byte), unique_id (16 bytes).
C19_RoundTrip ==
    pc = "round_trip" =>
        /\ result.parsed = Returned(tx.self)
        /\ Len(result.rendered) = 64
        /\ \A k \in 1 .. 64 : result.rendered[k] \in Range(LowerDigits)
        /\ HexDecode(SubSeq(result.rendered, 1, 30)).bytes = tx.self.election_id
        /\ HexDecode(SubSeq(result.rendered, 31, 32)).bytes = <<AsU8(tx.self.transaction_type)>>
        /\ HexDecode(SubSeq(result.rendered, 33, 64)).bytes = tx.self.unique_id

C19_Witness ==
    /\ pc = "round_trip"
    /\ tx.self.transaction_type = "Decryption"
    /\ tx.self.election_id[1] = 251
    /\ tx.self.unique_id[16] = 10
    /\ result.rendered[1] = "f" /\ result.rendered[2] = "b"
    /\ result.rendered[32] = "2"
    /\ result.rendered[64] = "a"
    /\ result.parsed.tag = "Ok"

---------------------------------------------------------------------------
\* C20: for every Transaction that unpack produces, the type of its variant
\* (transaction_type) equals the type of its identifier (id); a transaction in
\* which they disagree is rejected.
C20_TagAndTypeByteAgree ==
    pc = "unpacked" /\ result.tag = "Ok" =>
        TransactionTypeOf(result.value) = IdOf(result.value).transaction_type

---------------------------------------------------------------------------
(* C21 *)

\* The sequences that are l in another order.
Reorderings(l) ==
    {[k \in 1 .. Len(l) |-> l[q[k]]] :
        q \in {f \in [1 .. Len(l) -> 1 .. Len(l)] :
                 \A i, j \in 1 .. Len(l) : f[i] = f[j] => i = j}}

\* The Decryption a step of the loop validated: the one it inserted or the
\* one it stopped on.
DecryptionValidated(s, s2, stopped, t) ==
    {d \in (s2 \ s) \cup (IF stopped THEN {t} ELSE {}) : d.type = "Decryption"}

\* C21 (trustee-list order does not matter): whenever the loop validates a
\* Decryption against the store, every Decryption that differs from it only
\* by the order of its `trustees` field is accepted against that store if and
\* only if it is.
C21_TrusteeOrderIrrelevant ==
    [][\A d \in DecryptionValidated(store, store', pc' = "failed", tx') :
          \A l \in Reorderings(d.trustees) :
             (DecryptionValidateTx([d EXCEPT !.trustees = l], store) = Ok)
               <=> (DecryptionValidateTx(d, store) = Ok)]_vars

\* A Decryption of a threshold-2 election listing two trustees against the
\* order of the Election's trustee list was accepted.
C21_Witness ==
    \E d \in StoredOf("Decryption") :
       /\ TheElectionTx.trustees_threshold = 2
       /\ d.trustees = <<TrusteeUuid(2), TrusteeUuid(1)>>
       /\ DecryptionValidateTx([d EXCEPT !.trustees = <<TrusteeUuid(1), TrusteeUuid(2)>>],
                               store \ {d}) = Ok

---------------------------------------------------------------------------
(* C22, C23: the identifiers the constructors give *)

\* What PartialDecryptionTransaction::new is called with: the upstream, the
\* index of the ciphertext in it, and the trustee (by index).
PartialDecryptionArgs ==
    [upstream_id : UpstreamIds, upstream_index : 0 .. NumVotes, trustee : 1 .. NumTrustees]

\* What DecryptionTransaction::new is called with: the vote and the trustees
\* listed.  The election holds one vote more than NumVotes here, so that two
\* different votes exist at every bound.
DecryptionArgs ==
    [vote : 1 .. NumVotes + 1,
     trustees : {l \in TrusteeLists : UnknownUuid \notin Range(l)}]

\* PartialDecryptionTransaction::new for these arguments; the share itself
\* plays no part in the identifier.
PartialDecryptionOf(args) ==
    NewPartialDecryption(TheElection, args.upstream_id, args.upstream_index,
        TrusteeUuid(args.trustee), args.trustee, TrusteeKey(args.trustee), 0)

\* DecryptionTransaction::new for these arguments.
DecryptionOf(args) ==
    NewDecryption(TheElection, VoteId(TheElection, args.vote), args.trustees,
                  PlainOf(args.vote))

ConstructorInit ==
    /\ store = {}
    /\ result = Ok
    /\ \/ /\ pc = "build_id"
          /\ tx \in {[call |-> "PartialDecryptionTransaction::new", one |-> a, two |-> b] :
                       a \in PartialDecryptionArgs, b \in PartialDecryptionArgs}
       \/ /\ pc = "new"
          /\ tx \in {[call |-> "DecryptionTransaction::new", one |-> a, two |-> b] :
                       a \in DecryptionArgs, b \in DecryptionArgs}

\* Two PartialDecryptions are built and stored with Store::set.
BuildTwoPartialDecryptions ==
    /\ pc = "build_id"
    /\ pc' = "built"
    /\ result' = [one |-> PartialDecryptionOf(tx.one), two |-> PartialDecryptionOf(tx.two)]
    /\ store' = StoreSet(StoreSet(store, PartialDecryptionOf(tx.one)),
                         PartialDecryptionOf(tx.two))
    /\ UNCHANGED tx

\* Two Decryptions are built and stored with Store::set.
BuildTwoDecryptions ==
    /\ pc = "new"
    /\ pc' = "created"
    /\ result' = [one |-> DecryptionOf(tx.one), two |-> DecryptionOf(tx.two)]
    /\ store' = StoreSet(StoreSet(store, DecryptionOf(tx.one)), DecryptionOf(tx.two))
    /\ UNCHANGED tx

ConstructorNext == BuildTwoPartialDecryptions \/ BuildTwoDecryptions

SpecConstructors == ConstructorInit /\ [][ConstructorNext]_vars

\* C22 (PartialDecryption identifiers distinguish what is decrypted), as
\* claimed: two PartialDecryptions of one election that differ in upstream_id,
\* in upstream_index or in trustee get different identifiers, and both are in
\* the store after they have been set.
C22_PartialDecryptionIdsDistinct ==
    (/\ pc = "built"
     /\ \/ tx.one.upstream_id # tx.two.upstream_id
        \/ tx.one.upstream_index # tx.two.upstream_index
        \/ tx.one.trustee # tx.two.trustee)
      => /\ result.one.id # result.two.id
         /\ {result.one, result.two} \subseteq store

\* C23 (Decryption identifiers distinguish votes), as claimed: the
\* Decryptions of two different Votes of one election get different
\* identifiers, and get_multiple(election_id, Decryption) lists both after
\* they have been set.
C23_DecryptionIdsDistinct ==
    (pc = "created" /\ tx.one.vote # tx.two.vote)
      => /\ result.one.id # result.two.id
         /\ {result.one, result.two} \subseteq GetMultiple(store, TheElection, "Decryption")

---------------------------------------------------------------------------
(* C24 *)

\* C24 (validation is stable under appends): a PartialDecryption or a
\* Decryption that validates against the store before a step of the loop,
\* whether it was accepted earlier or is accepted by this step, validates
\* against the store after the step.
C24_StableUnderAppends ==
    [][\A t \in {u \in store' : u.type \in {"PartialDecryption", "Decryption"}} :
          ValidateTx(t, store) = Ok => ValidateTx(t, store') = Ok]_vars

\* A Decryption was accepted, the KeyGenPublicKey and the PartialDecryption
\* of a trustee it does not list were inserted after it, and it still
\* validates.
C24_Witness ==
    \E d \in StoredOf("Decryption") :
       \E k \in StoredOf("KeyGenPublicKey"), p \in StoredOf("PartialDecryption") :
          /\ p.trustee_id = k.trustee_id
          /\ p.trustee_id \notin Range(d.trustees)
          /\ ValidateTx(d, store \ {k, p}) = Ok
          /\ ValidateTx(k, store \ {k, p}) = Ok
          /\ ValidateTx(p, store \ {p}) = Ok
          /\ ValidateTx(d, store) = Ok

====
